---- MODULE Spec2Model ----
(***************************************************************************)
(* Model of hyperliquid-python-sdk's request layer:                        *)
(*   - utils/error_handling.py: the exception classes, validate_address,   *)
(*     retry_on_failure (decorator / wrapper) and validate_numeric_param;  *)
(*   - api.py: API.post, decorated with retry_on_failure(max_retries=3).   *)
(*                                                                         *)
(* Python values are encoded so that TLC can compare them:                 *)
(*   - an optional value (None or x) is the sequence <<>> or <<x>>;        *)
(*   - a str is a sequence of one-character strings where the code looks   *)
(*     at its characters, and a TLA+ string where it does not;             *)
(*   - delays are whole seconds (exact in binary floating point).          *)
(***************************************************************************)
EXTENDS Integers, Sequences, FiniteSets, TLC

VARIABLES
    \* retry_on_failure's parameters and the function it decorates
    func, max_retries, initial_delay, max_delay, backoff_factor, exceptions,
    \* one wrapper invocation: position, loop variable and locals
    pc, retry, delay, last_exception,
    \* what the invocation delivered to its caller (None while it runs)
    outcome,
    \* observation: every attempt of the current invocation (what the network
    \* delivered and how func ended), the length of every time.sleep of the
    \* current invocation, and the invocations started
    history, sleeps, calls,
    \* a call of one of the validators: the function, its arguments
    \* (value or address, min_value, max_value) and what it delivered
    vfunc, arg, min_value, max_value, ret,
    \* wrapper invocations running in different threads on the same decorated
    \* function: each thread's frame (position, locals, what it delivered) and
    \* the observation of its attempts and sleeps
    frames

policyVars == <<func, max_retries, initial_delay, max_delay, backoff_factor, exceptions>>
wrapperVars == <<pc, retry, delay, last_exception, outcome, history, sleeps, calls>>
validatorVars == <<vfunc, arg, min_value, max_value, ret>>
vars == <<policyVars, wrapperVars, validatorVars, frames>>

---------------------------------------------------------------------------
(* Bounds of the model *)

\* largest max_retries given to the decorator of a generic callable
MaxRetries == 6
\* invocations of the decorated function made one after the other
MaxCalls == 2
\* address lengths tried on either side of the required length
LenSlack == 1
\* integer arguments of validate_numeric_param run from -1 to MaxValue
MaxValue == 11
\* threads that call the decorated function concurrently
NumThreads == 2

---------------------------------------------------------------------------
(* Python helpers *)

None == <<>>
Some(x) == <<x>>
IsNone(o) == o = <<>>
Get(o) == o[1]

Min(a, b) == IF a <= b THEN a ELSE b

---------------------------------------------------------------------------
(* error_handling.py: exception classes *)

\* class C(B): the direct base of each class
Base(cls) ==
    CASE cls = "HyperliquidError"      -> "Exception"
      [] cls = "InvalidParameterError" -> "HyperliquidError"
      [] cls = "APIError"              -> "HyperliquidError"
      [] cls = "ValueError"            -> "Exception"
      [] cls = "TypeError"             -> "Exception"
      [] OTHER                         -> "BaseException"

RECURSIVE IsSubclass(_, _)
IsSubclass(cls, of) ==
    IF cls = of THEN TRUE
    ELSE IF cls = "BaseException" THEN FALSE
    ELSE IsSubclass(Base(cls), of)

\* an exception object: class, message, and APIError's two attributes
\* (None for the classes that have none)
Exc(cls, message, status_code, response) ==
    [cls |-> cls, message |-> message, status_code |-> status_code, response |-> response]

\* APIError.__init__(message, status_code=None, response=None)
APIError(message, status_code, response) ==
    Exc("APIError", message, status_code, response)

\* the result of calling a function: it returns a value or raises
Returns(v) == [kind |-> "return", value |-> Some(v), exc |-> None]
Raises(e) == [kind |-> "raise", value |-> None, exc |-> Some(e)]

---------------------------------------------------------------------------
(* api.py: API.post *)

\* what self.session.post can do: fail without a response, or deliver a
\* response with a status code and a body text
NoResponseErrors == {"ConnectionError", "Timeout"}
Statuses == {101, 200, 304, 404, 500}
Texts == {"{\"ok\": 1}", "<html>"}
NetResults ==
    [response : {FALSE}, error : NoResponseErrors, status_code : {0}, text : {""}]
    \cup [response : {TRUE}, error : {""}, status_code : Statuses, text : Texts]

\* response.raise_for_status(): requests raises HTTPError for 4xx and 5xx only
RaisesForStatus(status_code) == 400 <= status_code /\ status_code < 600

\* response.json(): the body parses as JSON or JSONDecodeError is raised
IsJson(text) == text = "{\"ok\": 1}"
ParseJson(text) == IF text = "{\"ok\": 1}" THEN [ok |-> 1] ELSE [ok |-> 0]

\* The outcomes of one call of post's body for a given network result.
\* response.json() failing raises requests' JSONDecodeError, which newer
\* releases of requests derive from RequestException (first handler) and
\* older ones from json.JSONDecodeError only (second handler): both are
\* outcomes the installed library can produce.
PostOutcomes(net) ==
    IF ~net.response
    THEN \* except RequestException: e.response is None
         {Raises(APIError(<<"API request failed", net.error>>, None, None))}
    ELSE IF RaisesForStatus(net.status_code)
    THEN \* HTTPError carries the response
         {Raises(APIError(<<"API request failed", "HTTPError">>,
                          Some(net.status_code), Some(net.text)))}
    ELSE IF IsJson(net.text)
    THEN {Returns(ParseJson(net.text))}
    ELSE {Raises(APIError(<<"API request failed", "JSONDecodeError">>, None, None)),
          Raises(APIError(<<"Failed to decode API response", "JSONDecodeError">>, None, None))}

\* any other decorated function: it returns, or raises one of these
CallableOutcomes ==
    {Returns([ok |-> 1]),
     Raises(APIError(<<"call failed", "">>, None, None)),
     Raises(Exc("InvalidParameterError", <<"Invalid x", "must be a valid number">>, None, None)),
     Raises(Exc("ValueError", <<"bad value", "">>, None, None))}

\* One run of the decorated function, as the wrapper's try statement sees it:
\* what came back from the network (None for a callable that is not post)
\* and the function's outcome.
FuncRuns(f) ==
    IF f = "post"
    THEN UNION {[net : {Some(net)}, out : PostOutcomes(net)] : net \in NetResults}
    ELSE [net : {None}, out : CallableOutcomes]

---------------------------------------------------------------------------
(* error_handling.py: retry_on_failure *)

\* @retry_on_failure(max_retries=3) on API.post, the other parameters default
PostPolicy ==
    [func |-> "post", max_retries |-> 3, initial_delay |-> 1, max_delay |-> 10,
     backoff_factor |-> 2, exceptions |-> {"APIError"}]

\* policies of a generic decorated callable: max_retries >= 0,
\* 0 < initial_delay <= max_delay, backoff_factor > 1
CallablePolicies ==
    {p \in [func : {"callable"}, max_retries : 0..MaxRetries, initial_delay : {1, 2},
            max_delay : {1, 5, 10}, backoff_factor : {2, 3},
            exceptions : {{"APIError"}, {"HyperliquidError"}}] :
        p.initial_delay <= p.max_delay}

Policies == {PostPolicy} \cup CallablePolicies

\* except exceptions as e
Catches_Any(e) == TRUE
Catches(e) == \E c \in exceptions : IsSubclass(e.cls, c)

\* range(max_retries + 1) still has the index i
InRange_OffByOne(i) == i < max_retries
InRange(i) == i < max_retries + 1

\* if retry == max_retries: break
IsLastRetry_Early(r) == r + 1 >= max_retries
IsLastRetry_Never(r) == FALSE
IsLastRetry(r) == r = max_retries

\* delay = min(delay * backoff_factor, max_delay)
NextDelay_NoClamp(d) == d * backoff_factor
NextDelay_Max(d) == IF d * backoff_factor >= max_delay THEN d * backoff_factor ELSE max_delay
NextDelay(d) == Min(d * backoff_factor, max_delay)

\* delay = initial_delay
FirstDelay_Max == max_delay
FirstDelay_Carried == IF calls = 0 THEN initial_delay ELSE delay
FirstDelay == initial_delay

\* raise last_exception: raising None is a TypeError
RaisedBy_First(slot) ==
    IF IsNone(slot) THEN Exc("TypeError", <<"exceptions must derive from BaseException", "">>, None, None)
    ELSE IF history # <<>> /\ history[1].out.kind = "raise" THEN Get(history[1].out.exc)
    ELSE Get(slot)
RaisedBy(slot) ==
    IF IsNone(slot) THEN Exc("TypeError", <<"exceptions must derive from BaseException", "">>, None, None)
    ELSE Get(slot)

\* no thread calls the decorated function
NoThreads == frames = <<>>

\* no validator is being called
NoValidatorCall ==
    /\ vfunc = "none"
    /\ arg = None
    /\ min_value = None
    /\ max_value = None
    /\ ret = None

Init ==
    /\ NoValidatorCall
    /\ NoThreads
    /\ \E p \in Policies :
        /\ func = p.func
        /\ max_retries = p.max_retries
        /\ initial_delay = p.initial_delay
        /\ max_delay = p.max_delay
        /\ backoff_factor = p.backoff_factor
        /\ exceptions = p.exceptions
    /\ pc = "idle"
    /\ retry = 0
    /\ delay = 0
    /\ last_exception = None
    /\ outcome = None
    /\ history = <<>>
    /\ sleeps = <<>>
    /\ calls = 0

\* wrapper(*args, **kwargs) is called: lines 67-70
Invoke ==
    /\ pc \in {"idle", "done"}
    /\ calls < MaxCalls
    /\ calls' = calls + 1
    /\ delay' = FirstDelay
    /\ last_exception' = None
    /\ outcome' = None
    /\ history' = <<>>
    /\ sleeps' = <<>>
    /\ retry' = 0
    /\ pc' = IF InRange(0) THEN "try" ELSE "raise"
    /\ UNCHANGED <<frames, policyVars, validatorVars>>

\* one pass through the try statement: lines 71-76
Attempt ==
    /\ pc = "try"
    /\ \E run \in FuncRuns(func) : LET o == run.out IN
        /\ history' = Append(history, run)
        /\ IF o.kind = "return"
           THEN \* return func(*args, **kwargs)
                /\ outcome' = Some(o)
                /\ pc' = "done"
                /\ UNCHANGED last_exception
           ELSE IF Catches(Get(o.exc))
           THEN /\ last_exception' = o.exc
                /\ pc' = IF IsLastRetry(retry) THEN "raise" ELSE "sleep"
                /\ UNCHANGED outcome
           ELSE \* not caught: the exception leaves the wrapper
                /\ outcome' = Some(o)
                /\ pc' = "done"
                /\ UNCHANGED last_exception
    /\ UNCHANGED <<frames, policyVars, validatorVars, retry, delay, sleeps, calls>>

\* time.sleep(delay), the new delay and the next loop index: lines 78-79, 70
Sleep ==
    /\ pc = "sleep"
    /\ sleeps' = Append(sleeps, delay)
    /\ delay' = NextDelay(delay)
    /\ IF InRange(retry + 1)
       THEN retry' = retry + 1 /\ pc' = "try"
       ELSE retry' = retry /\ pc' = "raise"
    /\ UNCHANGED <<frames, policyVars, validatorVars, last_exception, outcome, history, calls>>

\* raise last_exception: line 81
Raise ==
    /\ pc = "raise"
    /\ outcome' = Some(Raises(RaisedBy(last_exception)))
    /\ pc' = "done"
    /\ UNCHANGED <<frames, policyVars, validatorVars, retry, delay, last_exception, history, sleeps, calls>>

Next == Invoke \/ Attempt \/ Sleep \/ Raise

Spec == Init /\ [][Next]_vars


---------------------------------------------------------------------------
(* error_handling.py: wrapper called from several threads at once.  Every   *)
(* call of wrapper has its own frame: delay, last_exception and the loop    *)
(* variable are locals; the decorator's parameters are shared and read only *)

Threads == 1..NumThreads

\* the frame of a thread that has not called yet
IdleFrame ==
    [pc |-> "idle", retry |-> 0, delay |-> 0, last_exception |-> None,
     outcome |-> None, history |-> <<>>, sleeps |-> <<>>]

\* the frame that holds the delay thread t reads and writes: its own
DelayFrame_Shared(t) == 1
DelayFrame(t) == t

\* policies of the decorated callable the threads share
ConcurrentPolicies ==
    {p \in CallablePolicies :
        /\ p.max_retries <= 2
        /\ <<p.initial_delay, p.max_delay, p.backoff_factor>> \in {<<1, 10, 2>>, <<2, 5, 3>>}}

\* one sequential wrapper: not called
WrapperIdle ==
    /\ pc = "idle" /\ retry = 0 /\ delay = 0 /\ last_exception = None
    /\ outcome = None /\ history = <<>> /\ sleeps = <<>> /\ calls = 0

InitConcurrent ==
    /\ NoValidatorCall
    /\ WrapperIdle
    /\ \E p \in ConcurrentPolicies :
        /\ func = p.func
        /\ max_retries = p.max_retries
        /\ initial_delay = p.initial_delay
        /\ max_delay = p.max_delay
        /\ backoff_factor = p.backoff_factor
        /\ exceptions = p.exceptions
    /\ frames = [t \in Threads |-> IdleFrame]

\* thread t calls wrapper: lines 67-70
ThreadInvoke(t) ==
    /\ frames[t].pc = "idle"
    /\ frames' = [frames EXCEPT
            ![t].last_exception = None,
            ![t].retry = 0,
            ![t].pc = IF InRange(0) THEN "try" ELSE "raise",
            ![DelayFrame(t)].delay = FirstDelay]
    /\ UNCHANGED <<policyVars, wrapperVars, validatorVars>>

\* thread t passes through the try statement: lines 71-76
ThreadAttempt(t) ==
    /\ frames[t].pc = "try"
    /\ \E run \in FuncRuns(func) : LET o == run.out IN
        frames' = [frames EXCEPT
            ![t].history = Append(@, run),
            ![t].outcome = IF o.kind = "return" \/ ~Catches(Get(o.exc)) THEN Some(o) ELSE @,
            ![t].last_exception = IF o.kind = "raise" /\ Catches(Get(o.exc)) THEN o.exc ELSE @,
            ![t].pc = IF o.kind = "return" \/ ~Catches(Get(o.exc)) THEN "done"
                      ELSE IF IsLastRetry(frames[t].retry) THEN "raise"
                      ELSE "sleep"]
    /\ UNCHANGED <<policyVars, wrapperVars, validatorVars>>

\* thread t sleeps and backs off: lines 78-79, 70
ThreadSleep(t) ==
    /\ frames[t].pc = "sleep"
    /\ frames' = [frames EXCEPT
            ![t].sleeps = Append(@, frames[DelayFrame(t)].delay),
            ![t].retry = IF InRange(@ + 1) THEN @ + 1 ELSE @,
            ![t].pc = IF InRange(frames[t].retry + 1) THEN "try" ELSE "raise",
            ![DelayFrame(t)].delay = NextDelay(@)]
    /\ UNCHANGED <<policyVars, wrapperVars, validatorVars>>

\* thread t raises last_exception: line 81
ThreadRaise(t) ==
    /\ frames[t].pc = "raise"
    /\ frames' = [frames EXCEPT
            ![t].outcome = Some(Raises(RaisedBy(frames[t].last_exception))),
            ![t].pc = "done"]
    /\ UNCHANGED <<policyVars, wrapperVars, validatorVars>>

NextConcurrent ==
    \E t \in Threads :
        ThreadInvoke(t) \/ ThreadAttempt(t) \/ ThreadSleep(t) \/ ThreadRaise(t)

SpecConcurrent == InitConcurrent /\ [][NextConcurrent]_vars

---------------------------------------------------------------------------
(* Python's int(str, base) and float(str), on the characters the inputs use *)

DecDigits == {"0", "1", "2", "3", "4", "5", "6", "7", "8", "9"}
HexDigits == DecDigits \cup {"a", "b", "c", "d", "e", "f", "A", "B", "C", "D", "E", "F"}
DigitsOf(base) == IF base = 16 THEN HexDigits ELSE DecDigits
IsSpace(c) == c = " "

RECURSIVE LStrip(_)
LStrip(s) == IF s # <<>> /\ IsSpace(s[1]) THEN LStrip(Tail(s)) ELSE s
RECURSIVE RStrip(_)
RStrip(s) == IF s # <<>> /\ IsSpace(s[Len(s)]) THEN RStrip(SubSeq(s, 1, Len(s) - 1)) ELSE s
Strip(s) == RStrip(LStrip(s))

\* an optional sign is skipped
DropSign(s) == IF s # <<>> /\ s[1] \in {"+", "-"} THEN Tail(s) ELSE s
IsNegative(s) == s # <<>> /\ s[1] = "-"

\* with base 16 a leading 0x or 0X is skipped, and one underscore after it
DropBasePrefix(s, base) ==
    IF base = 16 /\ Len(s) >= 2 /\ s[1] = "0" /\ s[2] \in {"x", "X"}
    THEN LET t == SubSeq(s, 3, Len(s))
         IN IF t # <<>> /\ t[1] = "_" THEN Tail(t) ELSE t
    ELSE s

\* digits, with single underscores allowed between two digits
IsDigitPart(s, base) ==
    /\ s # <<>>
    /\ \A i \in 1..Len(s) :
        \/ s[i] \in DigitsOf(base)
        \/ /\ s[i] = "_"
           /\ 1 < i /\ i < Len(s)
           /\ s[i - 1] \in DigitsOf(base)
           /\ s[i + 1] \in DigitsOf(base)

\* int(s, base) does not raise ValueError
IntParses(s, base) == IsDigitPart(DropBasePrefix(DropSign(Strip(s)), base), base)

DigitValue(c) ==
    CASE c = "0" -> 0 [] c = "1" -> 1 [] c = "2" -> 2 [] c = "3" -> 3 [] c = "4" -> 4
      [] c = "5" -> 5 [] c = "6" -> 6 [] c = "7" -> 7 [] c = "8" -> 8 [] c = "9" -> 9

\* the value of decimal digits (underscores skipped), most significant first
RECURSIVE DigitsValue(_, _)
DigitsValue(s, acc) ==
    IF s = <<>> THEN acc
    ELSE IF s[1] = "_" THEN DigitsValue(Tail(s), acc)
    ELSE DigitsValue(Tail(s), 10 * acc + DigitValue(s[1]))

RECURSIVE CountDigits(_)
CountDigits(s) ==
    IF s = <<>> THEN 0
    ELSE (IF s[1] = "_" THEN 0 ELSE 1) + CountDigits(Tail(s))

RECURSIVE Pow10(_)
Pow10(n) == IF n = 0 THEN 1 ELSE 10 * Pow10(n - 1)

\* A number is num / den: an int has den = 1, a float parsed from a decimal
\* literal has den a power of ten.
PyInt(n) == [type |-> "int", num |-> n, den |-> 1]
PyFloat(num, den) == [type |-> "float", num |-> num, den |-> den]
\* None where a number is expected
PyNone == [type |-> "NoneType", num |-> 0, den |-> 1]

\* int(s) for a string that parses
IntValue(s) ==
    LET t == Strip(s)
        v == DigitsValue(DropSign(t), 0)
    IN PyInt(IF IsNegative(t) THEN 0 - v ELSE v)

\* the position of the first "." of s, 0 if there is none
RECURSIVE IndexOfDot(_, _)
IndexOfDot(s, i) ==
    IF i > Len(s) THEN 0
    ELSE IF s[i] = "." THEN i
    ELSE IndexOfDot(s, i + 1)

\* float(s) does not raise ValueError, for s holding a ".": digits on at
\* least one side of the one ".". (The exponent, inf and nan forms need
\* letters; no input with a "." holds one.)
FloatParses(s) ==
    LET t == DropSign(Strip(s))
        k == IndexOfDot(t, 1)
        whole == SubSeq(t, 1, k - 1)
        frac == SubSeq(t, k + 1, Len(t))
    IN /\ k > 0
       /\ whole # <<>> \/ frac # <<>>
       /\ whole = <<>> \/ IsDigitPart(whole, 10)
       /\ frac = <<>> \/ IsDigitPart(frac, 10)

\* float(s) for a string that parses
FloatValue(s) ==
    LET t == Strip(s)
        u == DropSign(t)
        k == IndexOfDot(u, 1)
        whole == SubSeq(u, 1, k - 1)
        frac == SubSeq(u, k + 1, Len(u))
        den == Pow10(CountDigits(frac))
        v == DigitsValue(whole, 0) * den + DigitsValue(frac, 0)
    IN PyFloat(IF IsNegative(t) THEN 0 - v ELSE v, den)

\* a < b on numbers
NumLess(a, b) == a.num * b.den < b.num * a.den

---------------------------------------------------------------------------
(* Python argument values of the validators *)

StrArg(chars) == [type |-> "str", chars |-> chars, number |-> None]
NumArg(n) == [type |-> n.type, chars |-> <<>>, number |-> Some(n)]
NoneArg == [type |-> "NoneType", chars |-> <<>>, number |-> None]

---------------------------------------------------------------------------
(* error_handling.py: validate_address *)

\* len(address) != 42
AddressLen == 42

\* address.startswith('0x')
StartsWith0x(chars) == Len(chars) >= 2 /\ chars[1] = "0" /\ chars[2] = "x"

validate_address(address) ==
    IF address.type # "str" THEN FALSE
    ELSE IF ~StartsWith0x(address.chars) THEN FALSE
    ELSE IF Len(address.chars) # AddressLen THEN FALSE
    ELSE IF IntParses(SubSeq(address.chars, 3, Len(address.chars)), 16) THEN TRUE
    ELSE FALSE

\* Addresses tried: a two-character prefix, then a body of "a" of a length
\* around 40 in which up to two characters are replaced.
AddressPrefixes == {<<"0", "x">>, <<"0", "X">>, <<"1", "x">>, <<"x", "0">>}
EditChars == {"a", "F", "7", "0", "g", "x", "X", "_", "+", "-", " "}
BodyLens == (AddressLen - 2 - LenSlack)..(AddressLen - 2 + LenSlack)
EditPositions == {1, 2, 20, 21, AddressLen - 2}
Body(len, p, c, q, d) ==
    [i \in 1..len |-> IF i = p THEN c ELSE IF i = q THEN d ELSE "a"]
AddressArgs ==
    {NoneArg, NumArg(PyInt(0)), StrArg(<<>>), StrArg(<<"0">>), StrArg(<<"0", "x">>)}
    \cup {StrArg(pre \o Body(len, p, c, q, d)) :
            pre \in AddressPrefixes,
            len \in BodyLens,
            p \in EditPositions, q \in EditPositions,
            c \in EditChars, d \in EditChars}

---------------------------------------------------------------------------
(* error_handling.py: validate_numeric_param *)

InvalidParameterError(detail) ==
    Exc("InvalidParameterError", <<"Invalid x", detail>>, None, None)

\* num_value < min_value
IsBelow(num_value, bound) == NumLess(num_value, bound)
\* num_value > max_value
IsAbove_Strict(num_value, bound) == ~NumLess(num_value, bound)
IsAbove(num_value, bound) == NumLess(bound, num_value)

\* lines 118-128, once num_value is known
CheckBounds(num_value, lo, hi) ==
    IF ~IsNone(lo) /\ IsBelow(num_value, Get(lo))
    THEN Raises(InvalidParameterError("is less than minimum allowed value"))
    ELSE IF ~IsNone(hi) /\ IsAbove(num_value, Get(hi))
    THEN Raises(InvalidParameterError("is greater than maximum allowed value"))
    ELSE Returns(num_value)

validate_numeric_param(value, lo, hi) ==
    IF value.type = "str"
    THEN IF IndexOfDot(value.chars, 1) > 0
         THEN IF FloatParses(value.chars)
              THEN CheckBounds(FloatValue(value.chars), lo, hi)
              ELSE Raises(InvalidParameterError("must be a valid number"))
         ELSE IF IntParses(value.chars, 10)
              THEN CheckBounds(IntValue(value.chars), lo, hi)
              ELSE Raises(InvalidParameterError("must be a valid number"))
    ELSE IF value.type = "NoneType"
    THEN \* num_value = None: comparing None with a number is a TypeError
         IF IsNone(lo) /\ IsNone(hi) THEN Returns(PyNone)
         ELSE Raises(Exc("TypeError", <<"'<' not supported", "NoneType">>, None, None))
    ELSE CheckBounds(Get(value.number), lo, hi)

\* str(n) of an int: its decimal digits, "-" first when negative
DigitChar(d) ==
    CASE d = 0 -> "0" [] d = 1 -> "1" [] d = 2 -> "2" [] d = 3 -> "3" [] d = 4 -> "4"
      [] d = 5 -> "5" [] d = 6 -> "6" [] d = 7 -> "7" [] d = 8 -> "8" [] d = 9 -> "9"
RECURSIVE NatStr(_)
NatStr(n) == IF n < 10 THEN <<DigitChar(n)>> ELSE Append(NatStr(n \div 10), DigitChar(n % 10))
Str(n) == IF n < 0 THEN <<"-">> \o NatStr(0 - n) ELSE NatStr(n)

\* the integer arguments tried, as ints and as their decimal strings
IntValues == (0 - 1)..MaxValue
\* strings that are no number for the parse the code chooses
Malformed ==
    {<<>>, <<"a", "b", "c">>, <<"1", "e", "5">>, <<"-", "-", "1">>, <<"1", "_">>,
     <<"_", "1">>, <<"1", "_", "_", "0">>, <<"1", " ", "0">>, <<"0", "x", "1", "0">>,
     <<"5", "-">>, <<"1", ".", "2", ".", "3">>, <<".">>, <<"1", "_", ".", "5">>,
     <<"-", " ", ".", "5">>}
\* other strings Python parses
OtherNumerals ==
    {<<" ", "7">>, <<"7", " ">>, <<"+", "5">>, <<"1", "_", "0">>, <<"0", "0", "7">>,
     <<"3", ".", "5">>, <<"3", ".", "0">>, <<"1", "0", ".", "5">>, <<"1", ".">>,
     <<".", "5">>, <<"-", "0", ".", "5">>, <<"1", "_", "0", ".", "2", "5">>}
NumericArgs ==
    {NumArg(PyInt(n)) : n \in IntValues}
    \cup {NumArg(PyFloat(35, 10)), NoneArg}
    \cup {StrArg(Str(n)) : n \in IntValues}
    \cup {StrArg(s) : s \in Malformed \cup OtherNumerals}
Bounds == {None, Some(PyInt(0)), Some(PyInt(5)), Some(PyInt(10))}

---------------------------------------------------------------------------
(* The validators as calls: the arguments are chosen, then the call runs *)

\* no wrapper invocation exists
NoWrapper ==
    /\ func = "none" /\ max_retries = 0 /\ initial_delay = 0 /\ max_delay = 0
    /\ backoff_factor = 0 /\ exceptions = {}
    /\ pc = "idle" /\ retry = 0 /\ delay = 0 /\ last_exception = None
    /\ outcome = None /\ history = <<>> /\ sleeps = <<>> /\ calls = 0

InitValidators ==
    /\ NoWrapper
    /\ NoThreads
    /\ ret = None
    /\ \/ /\ vfunc = "validate_address"
          /\ arg \in AddressArgs
          /\ min_value = None
          /\ max_value = None
       \/ /\ vfunc = "validate_numeric_param"
          /\ arg \in NumericArgs
          /\ min_value \in Bounds
          /\ max_value \in Bounds

CallValidateAddress ==
    /\ vfunc = "validate_address"
    /\ IsNone(ret)
    /\ ret' = Some(Returns(validate_address(arg)))
    /\ UNCHANGED <<frames, policyVars, wrapperVars, vfunc, arg, min_value, max_value>>

CallValidateNumericParam ==
    /\ vfunc = "validate_numeric_param"
    /\ IsNone(ret)
    /\ ret' = Some(validate_numeric_param(arg, min_value, max_value))
    /\ UNCHANGED <<frames, policyVars, wrapperVars, vfunc, arg, min_value, max_value>>

NextValidators == CallValidateAddress \/ CallValidateNumericParam

SpecValidators == InitValidators /\ [][NextValidators]_vars

---------------------------------------------------------------------------
(* Vocabulary of the claims about one invocation *)

Attempts == Len(history)
Failed(i) == history[i].out.kind = "raise"
Succeeded(i) == history[i].out.kind = "return"
ErrOf(i) == Get(history[i].out.exc)
\* the error's class is one of the policy's retryable kinds
InRetryableKinds(e) == \E c \in exceptions : IsSubclass(e.cls, c)
\* attempt i failed with an error the policy retries
Retryable(i) == Failed(i) /\ InRetryableKinds(ErrOf(i))
AllRetryable == \A i \in 1..Attempts : Retryable(i)
\* attempt i got a response from the remote end
GotResponse(i) == ~IsNone(history[i].net) /\ Get(history[i].net).response
StatusOf(i) == Get(history[i].net).status_code
Is2xx(status_code) == 200 <= status_code /\ status_code < 300
\* the invocation ended by handing attempt i's outcome to the caller
EndedWith(i) == pc = "done" /\ outcome = Some(history[i].out)

RECURSIVE Pow(_, _)
Pow(b, n) == IF n = 0 THEN 1 ELSE b * Pow(b, n - 1)

\* C1: when every attempt fails with a retryable error, an invocation makes
\* exactly max_retries + 1 attempts and then raises: it does not give up
\* before that many attempts and never makes more.
C1_ExactlyMaxRetriesPlusOneAttempts ==
    /\ Attempts <= max_retries + 1
    /\ (AllRetryable /\ Attempts = max_retries + 1) => pc \in {"raise", "done"}
    /\ (AllRetryable /\ pc \in {"raise", "done"}) => Attempts = max_retries + 1
    /\ (AllRetryable /\ pc = "done") => Get(outcome).kind = "raise"

C1_Witness ==
    /\ func = "post" /\ max_retries = 3
    /\ pc = "done" /\ AllRetryable /\ Attempts = 4
    /\ Get(outcome).kind = "raise"

\* C2 (as claimed): an attempt that gets a 2xx status with a body that is not
\* JSON ends the invocation at once with that error: it is the last attempt,
\* no sleep follows it, and as a first attempt it is the only attempt.
C2_DecodeFailsWithoutRetry ==
    \A i \in 1..Attempts :
        (GotResponse(i) /\ Is2xx(StatusOf(i)) /\ ~IsJson(Get(history[i].net).text)) =>
            /\ Failed(i)
            /\ i = Attempts
            /\ EndedWith(i)
            /\ Len(sleeps) = i - 1

\* C3: on exhaustion the error raised to the caller is the error of the last
\* attempt, attempt number max_retries + 1, unchanged.
C3_RaisesLastFailure ==
    /\ (AllRetryable /\ pc = "raise") =>
            last_exception = history[max_retries + 1].out.exc
    /\ (AllRetryable /\ pc = "done") =>
            /\ Attempts = max_retries + 1
            /\ Get(outcome) = Raises(ErrOf(max_retries + 1))

C3_Witness ==
    /\ pc = "done" /\ AllRetryable /\ Attempts = 4
    /\ \A i, j \in 1..Attempts : i # j => ErrOf(i) # ErrOf(j)
    /\ Get(outcome).exc = Some(ErrOf(4))
    /\ Get(outcome).exc # Some(ErrOf(1))

\* what C4 says of a successful attempt i, but for the bound on the delay
C4_SuccessEnds(i) ==
    /\ i <= max_retries + 1
    /\ \A j \in 1..(i - 1) : Failed(j)
    /\ i = Attempts
    /\ EndedWith(i)
    /\ Len(sleeps) = i - 1
    /\ i = 2 => sleeps = <<initial_delay>>

\* C4 (as claimed): a success at attempt k ends the invocation with that
\* value after k attempts and k - 1 sleeps; a success at the 2nd attempt has
\* slept once, for initial_delay, which is >= initial_delay and < max_delay.
C4_SuccessAtK_Original ==
    \A i \in 1..Attempts : Succeeded(i) =>
        /\ C4_SuccessEnds(i)
        /\ i = 2 => (sleeps[1] >= initial_delay /\ sleeps[1] < max_delay)

\* C4 (amended): as claimed, but the one delay before a success at the 2nd
\* attempt is <= max_delay, and < max_delay exactly when
\* initial_delay < max_delay.
C4_SuccessAtK ==
    \A i \in 1..Attempts : Succeeded(i) =>
        /\ C4_SuccessEnds(i)
        /\ i = 2 => /\ sleeps[1] >= initial_delay
                    /\ sleeps[1] <= max_delay
                    /\ (sleeps[1] < max_delay) <=> (initial_delay < max_delay)

C4_Witness ==
    /\ func = "post" /\ pc = "done" /\ Attempts = 2
    /\ Failed(1) /\ Succeeded(2)
    /\ Get(outcome) = Returns([ok |-> 1])
    /\ sleeps = <<1>>

\* the n-th term of the clamped geometric sequence, in closed form
BackoffTerm(n) == Min(initial_delay * Pow(backoff_factor, n - 1), max_delay)
\* 1, 2, 4, 8, 10, 10, ...
DefaultSequence(n) == IF n <= 4 THEN Pow(2, n - 1) ELSE 10

\* C5: the n-th sleep of an invocation lasts
\* min(initial_delay * backoff_factor^(n-1), max_delay); the sleeps never
\* decrease and stay at max_delay once they reach it; for (1, 2, 10) they
\* are 1, 2, 4, 8, 10, 10, ...
C5_BackoffSequence ==
    \A n \in 1..Len(sleeps) :
        /\ sleeps[n] = BackoffTerm(n)
        /\ n > 1 => sleeps[n] >= sleeps[n - 1]
        /\ (n > 1 /\ sleeps[n - 1] = max_delay) => sleeps[n] = max_delay
        /\ (initial_delay = 1 /\ backoff_factor = 2 /\ max_delay = 10) =>
                sleeps[n] = DefaultSequence(n)

C5_Witness == sleeps = <<1, 2, 4, 8, 10, 10>>

\* C6: an invocation that has ended has delivered the outcome of one of its
\* own attempts (a returned value of a successful attempt, or an error an
\* attempt raised); line 81 never finds last_exception None; with
\* max_retries = 0 there is one attempt, no sleep, and that attempt's outcome.
C6_AlwaysAnAttemptsOutcome ==
    /\ pc = "done" =>
        /\ ~IsNone(outcome)
        /\ \E i \in 1..Attempts : Get(outcome) = history[i].out
        /\ Get(outcome).kind = "return" => Succeeded(Attempts)
    /\ pc = "raise" => ~IsNone(last_exception)
    /\ (pc = "done" /\ max_retries = 0) =>
        /\ Attempts = 1
        /\ sleeps = <<>>
        /\ Get(outcome) = history[1].out

C6_Witness ==
    /\ max_retries = 0 /\ pc = "done"
    /\ Attempts = 1 /\ Retryable(1)
    /\ Get(outcome) = Raises(ErrOf(1))

\* C7 (as claimed): every response whose status is outside 2xx makes the
\* attempt fail with an APIError, whatever its body.
C7_Non2xxIsFailure ==
    \A i \in 1..Attempts :
        (GotResponse(i) /\ ~Is2xx(StatusOf(i))) =>
            (Failed(i) /\ ErrOf(i).cls = "APIError")

---------------------------------------------------------------------------
(* Claims about the validators *)

\* C8 (as claimed): validate_address returns True exactly for a str of 42
\* characters that starts with 0x and whose other 40 characters are all
\* base-16 digits, and False (raising nothing) for everything else.
C8_ValidAddressIff ==
    (vfunc = "validate_address" /\ ~IsNone(ret)) =>
        /\ Get(ret).kind = "return"
        /\ Get(ret).value = Some(TRUE) <=>
            /\ arg.type = "str"
            /\ Len(arg.chars) = 42
            /\ arg.chars[1] = "0" /\ arg.chars[2] = "x"
            /\ \A i \in 3..42 : arg.chars[i] \in HexDigits

\* n satisfies each bound that is given, both inclusive
WithinBounds(n) ==
    /\ IsNone(min_value) \/ Get(min_value).num <= n
    /\ IsNone(max_value) \/ n <= Get(max_value).num

FailsValidation(r) ==
    /\ r.kind = "raise"
    /\ r.value = None
    /\ Get(r.exc).cls = "InvalidParameterError"

\* C9: for an int n, or the decimal string of n, validate_numeric_param
\* returns n exactly when n is within the given bounds (both inclusive) and
\* fails with InvalidParameterError otherwise; a string that does not parse
\* fails with InvalidParameterError.
C9_NumericParamInclusiveBounds ==
    (vfunc = "validate_numeric_param" /\ ~IsNone(ret)) =>
        /\ \A n \in IntValues :
            (arg = NumArg(PyInt(n)) \/ arg = StrArg(Str(n))) =>
                /\ WithinBounds(n) => Get(ret) = Returns(PyInt(n))
                /\ ~WithinBounds(n) => FailsValidation(Get(ret))
        /\ (arg.type = "str" /\ arg.chars \in Malformed) => FailsValidation(Get(ret))

\* "10" with max_value 10 is accepted: the upper bound is inclusive
C9_Witness ==
    /\ vfunc = "validate_numeric_param"
    /\ arg = StrArg(<<"1", "0">>)
    /\ min_value = Some(PyInt(0)) /\ max_value = Some(PyInt(10))
    /\ ret = Some(Returns(PyInt(10)))

---------------------------------------------------------------------------
(* Claims about sleeps, delays and termination of one invocation *)

\* the policy invariant of the data model
PolicyInvariant == initial_delay <= max_delay /\ backoff_factor > 1
\* the invocation is under way
Running == pc \in {"try", "sleep", "raise"}
\* every attempt failed with a retried error and the loop has been left
Exhausted == AllRetryable /\ pc \in {"raise", "done"}

\* C11: sleep n comes after the failed retryable attempt n and before
\* attempt n + 1: after it the wrapper is about to try again; an invocation
\* that has left the loop has slept once less than it has tried, so no sleep
\* follows the final attempt and an exhausted one has slept max_retries
\* times; always sleeps <= attempts <= max_retries + 1.
C11_SleepOnlyBetweenAttempts ==
    /\ Len(sleeps) <= Attempts
    /\ Attempts <= max_retries + 1
    /\ \A n \in 1..Len(sleeps) : Retryable(n)
    /\ (Running /\ Len(sleeps) = Attempts) => pc = "try"
    /\ pc = "sleep" => (Len(sleeps) = Attempts - 1 /\ Retryable(Attempts))
    /\ pc \in {"raise", "done"} => Len(sleeps) = Attempts - 1
    /\ Exhausted => Len(sleeps) = max_retries

C11_Witness ==
    /\ func = "post" /\ pc = "done" /\ AllRetryable
    /\ Attempts = 4 /\ Len(sleeps) = 3

\* C12: under the policy invariant, the delay of an invocation stays within
\* initial_delay..max_delay, never decreases from one retry to the next, and
\* no sleep is longer than max_delay.
C12_DelayWithinBounds ==
    (PolicyInvariant /\ calls > 0) =>
        /\ initial_delay <= delay /\ delay <= max_delay
        /\ \A n \in 1..Len(sleeps) :
            /\ initial_delay <= sleeps[n] /\ sleeps[n] <= max_delay
            /\ n > 1 => sleeps[n - 1] <= sleeps[n]
        /\ sleeps # <<>> => sleeps[Len(sleeps)] <= delay

\* 16 is clamped to 10 after the fourth sleep
C12_Witness ==
    /\ PolicyInvariant
    /\ sleeps = <<1, 2, 4, 8>> /\ delay = 10 /\ max_delay = 10

RECURSIVE SumSeq(_)
SumSeq(s) == IF s = <<>> THEN 0 ELSE s[1] + SumSeq(Tail(s))
\* the sum of the first n terms of the backoff sequence
RECURSIVE BackoffSum(_)
BackoffSum(n) == IF n = 0 THEN 0 ELSE BackoffSum(n - 1) + BackoffTerm(n)

\* the time slept stays within the sum of the first max_retries terms of the
\* backoff sequence and is that sum on exhaustion; 7 for API.post
TotalSleepBounded ==
    /\ SumSeq(sleeps) <= BackoffSum(max_retries)
    /\ Exhausted => SumSeq(sleeps) = BackoffSum(max_retries)
    /\ func = "post" =>
        /\ SumSeq(sleeps) <= 7
        /\ Exhausted => SumSeq(sleeps) = 7

\* the steps of an invocation are taken once they can be: func returns or
\* raises, time.sleep returns, raise raises; nothing obliges a caller to call
FairSpec ==
    Spec /\ WF_vars(Attempt) /\ WF_vars(Sleep) /\ WF_vars(Raise)

\* C13: every invocation ends (it returns or raises), and the time it sleeps
\* is at most the sum of the first max_retries backoff terms, exactly that
\* sum on exhaustion, 1 + 2 + 4 = 7 for API.post.
C13_TerminatesWithinTotalSleep ==
    /\ []TotalSleepBounded
    /\ Running ~> (pc = "done")

C13_Witness ==
    /\ func = "post" /\ pc = "done" /\ AllRetryable
    /\ sleeps = <<1, 2, 4>> /\ SumSeq(sleeps) = 7

\* a new invocation has just been entered
JustInvoked == pc = "try" /\ history = <<>>

\* C15: whatever the earlier invocations did, a new invocation starts with
\* loop index 0, no attempt, no sleep, no captured error and the delay
\* initial_delay; no step changes the policy.
C15_NoCarryOver ==
    /\ [](JustInvoked =>
            /\ retry = 0 /\ Attempts = 0 /\ sleeps = <<>>
            /\ delay = initial_delay
            /\ IsNone(last_exception) /\ IsNone(outcome))
    /\ [][policyVars' = policyVars]_vars

\* the second invocation starts like the first
C15_Witness ==
    /\ calls = 2 /\ JustInvoked
    /\ retry = 0 /\ delay = initial_delay /\ initial_delay < max_delay

\* C16 (as claimed): a failed attempt's error carries the status code and
\* body text of the response exactly when the remote end answered with a
\* status outside 2xx, and None for both when there was no response; the
\* error raised after the retries carries those of the last attempt.
C16_ErrorCarriesStatusAndBody ==
    func = "post" =>
        /\ \A i \in 1..Attempts : Failed(i) =>
            /\ (GotResponse(i) /\ ~Is2xx(StatusOf(i))) =>
                    /\ ErrOf(i).status_code = Some(StatusOf(i))
                    /\ ErrOf(i).response = Some(Get(history[i].net).text)
            /\ ~GotResponse(i) =>
                    (IsNone(ErrOf(i).status_code) /\ IsNone(ErrOf(i).response))
            /\ ~IsNone(ErrOf(i).status_code) =>
                    (GotResponse(i) /\ ~Is2xx(StatusOf(i)))
        /\ (pc = "done" /\ Get(outcome).kind = "raise") =>
            /\ Get(Get(outcome).exc).status_code = ErrOf(Attempts).status_code
            /\ Get(Get(outcome).exc).response = ErrOf(Attempts).response

---------------------------------------------------------------------------
(* Claims about concurrent invocations *)

\* an invocation that runs alone has left the loop after the attempts h:
\* the last one returned, or failed with an error that is not retried, or
\* was attempt number max_retries + 1
AloneEnded(h) ==
    /\ h # <<>>
    /\ \/ h[Len(h)].out.kind = "return"
       \/ ~InRetryableKinds(Get(h[Len(h)].out.exc))
       \/ Len(h) = max_retries + 1

\* what an invocation that runs alone and sees the attempts f.history has
\* done and holds: every attempt but the last failed with a retried error,
\* sleep n lasted the n-th backoff term, the delay is the next term, and
\* once ended it has delivered its last attempt's outcome
AsIfAlone(f) ==
    LET h == f.history
        k == Len(h)
    IN /\ k <= max_retries + 1
       /\ \A i \in 1..(k - 1) :
            h[i].out.kind = "raise" /\ InRetryableKinds(Get(h[i].out.exc))
       /\ Len(f.sleeps) \in {n \in {k - 1, k} : n >= 0}
       /\ \A n \in 1..Len(f.sleeps) : f.sleeps[n] = BackoffTerm(n)
       /\ f.pc # "idle" => f.delay = BackoffTerm(Len(f.sleeps) + 1)
       /\ f.pc \in {"raise", "done"} <=> AloneEnded(h)
       /\ f.pc \in {"raise", "done"} => Len(f.sleeps) = k - 1
       /\ f.pc = "try" => (Len(f.sleeps) = k /\ f.retry = k)
       /\ f.pc = "done" => f.outcome = Some(h[k].out)
       /\ f.pc # "done" => IsNone(f.outcome)

\* C14: under every interleaving of the threads' attempts and sleeps, each
\* invocation's attempts, sleeps, delay and outcome are those of an
\* invocation that runs alone and sees the same outcomes of its attempts.
C14_ThreadsDoNotInterfere ==
    \A t \in DOMAIN frames : AsIfAlone(frames[t])

\* thread 1 is about to make its third attempt while thread 2 has just
\* failed its first
C14_Witness ==
    /\ DOMAIN frames = Threads
    /\ frames[1].pc = "try" /\ frames[1].sleeps = <<1, 2>> /\ frames[1].delay = 4
    /\ frames[2].pc = "sleep" /\ frames[2].sleeps = <<>> /\ frames[2].delay = 1

====
